---- MODULE Spec2Model ----
(***************************************************************************)
(* A model of src/src/tor/shadowtor-preload.c: the per-thread PreloadWorker *)
(* registry, the process-wide PreloadGlobal state guarded by the two        *)
(* G_LOCKs, the crypto_early_init / crypto_global_init /                    *)
(* crypto_global_cleanup interposers, the OpenSSL locking bridge and the    *)
(* write_str_to_file interposer with its per-thread consensus counter.      *)
(*                                                                         *)
(* Every interposed function is cut into steps at the points where another  *)
(* thread can observe it: the call, the G_LOCK acquisition (together with   *)
(* the code that runs up to the next call into the Tor module), each return *)
(* of a call into the Tor module, and the G_UNLOCK with its return.         *)
(***************************************************************************)
EXTENDS Integers, FiniteSets, Sequences, TLC

(* ---------------------------------------------------------------- bounds *)
NumThreads == 2
MaxLocks == 2
MaxBind == 2
MaxClear == 2
MaxEarlyInit == 2
MaxGlobalInit == 2
MaxGlobalCleanup == 2
MaxMutexOps == 4
MaxWrite == 3

Threads == 1..NumThreads
LockCounts == 0..MaxLocks
\* the index argument of the locking callback, with values on either side of
\* every array
LockIndices == (0 - 1)..MaxLocks

(* ------------------------------------------------------------- constants *)
NoThread == 0
NULL == 0
\* heap addresses g_new0 can hand out for PreloadWorker objects
Addrs == 1..NumThreads

PrimaryLock == "shadowtorpreloadPrimaryLock"
SecondaryLock == "shadowtorpreloadSecondaryLock"

\* the entries of InterposeFuncs that shadowtorpreload_init asserts
MandatorySyms ==
  {"spawn_func", "write_str_to_file", "crypto_global_init",
   "crypto_global_cleanup", "tor_ssl_global_init"}
\* the entries that "do not exist in all Tors"
OptionalSyms == {"crypto_early_init", "crypto_seed_rng", "crypto_init_siphash_key"}
\* a module handle is modelled by the optional symbols the module exports
Handles == SUBSET OptionalSyms
FullHandle == OptionalSyms

\* the mode bits OpenSSL passes to the locking callback, as sets of flag names
LockModes ==
  {{"CRYPTO_LOCK", "CRYPTO_READ"}, {"CRYPTO_LOCK", "CRYPTO_WRITE"},
   {"CRYPTO_UNLOCK", "CRYPTO_READ"}, {"CRYPTO_UNLOCK", "CRYPTO_WRITE"}}

\* results a call into the Tor module can report
DelegateResults == {0, -1}
\* the same with two failure codes to tell apart
ResultCodes == {0, -1, -2}

\* file names, as sequences of pieces; the last piece is what a suffix test
\* of the name looks at
ConsensusSuffix == "cached-consensus"
Paths ==
  {<<"data/", "cached-consensus">>, <<"data/", "cached-consensus", ".tmp">>,
   <<"data/", "cached-microdesc-consensus">>}

VARIABLES
  initialized,            \* PreloadGlobal.initialized
  sslInitializedEarly,    \* PreloadGlobal.sslInitializedEarly
  sslInitializedGlobal,   \* PreloadGlobal.sslInitializedGlobal
  nTorCryptoNodes,        \* PreloadGlobal.nTorCryptoNodes
  nThreads,               \* PreloadGlobal.nThreads
  numCryptoThreadLocks,   \* PreloadGlobal.numCryptoThreadLocks
  cryptoThreadLocks,      \* PreloadGlobal.cryptoThreadLocks: index -> GRWLock
  mutex,                  \* owner of each G_LOCK, NoThread when free
  worker,                 \* thread -> address of its PreloadWorker, or NULL
  consensusCounter,       \* thread -> consensusCounter of its PreloadWorker
  files,                  \* names of the files g_file_set_contents has written
  vtable,                 \* thread -> the non-NULL entries of worker->vtable
  pc,                     \* thread -> where it is inside an interposed call
  arg,                    \* thread -> numLocks argument of a pending setup
  result,                 \* thread -> local `result` of its current/last call
  crashed,                \* the process died (failed assert, NULL call)
  arrayInFlux,            \* a thread is between the writes of the array fields
                          \* and the G_UNLOCK that publishes them
  issued,                 \* history: calls issued so far, per entry point
  calls,                  \* history: calls made into the Tor module, per symbol
  hist,                   \* history: flags and counters the properties read
  lastId                  \* history: thread -> last value of the id callback

global == <<initialized, sslInitializedEarly, sslInitializedGlobal,
            nTorCryptoNodes, nThreads, numCryptoThreadLocks, cryptoThreadLocks>>
vars == <<initialized, sslInitializedEarly, sslInitializedGlobal,
          nTorCryptoNodes, nThreads, numCryptoThreadLocks, cryptoThreadLocks,
          mutex, worker, consensusCounter, files, vtable, pc, arg, result,
          crashed, arrayInFlux, issued, calls, hist, lastId>>

(* -------------------------------------------------------------- helpers *)
\* cryptoThreadLocks == NULL: the array with no entries
NoLocks == << >>
\* g_rw_lock_init
NewRWLock == [readers |-> {}, writer |-> NoThread]
\* g_new0(GRWLock, n) followed by g_rw_lock_init on each entry; glib returns
\* NULL for n == 0, and the C array is indexed from 0
g_new0_locks(n) == IF n <= 0 THEN NoLocks ELSE [i \in 0..(n - 1) |-> NewRWLock]

Inc(rec, f) == [rec EXCEPT ![f] = @ + 1]

Init ==
  /\ initialized = FALSE
  /\ sslInitializedEarly = FALSE
  /\ sslInitializedGlobal = FALSE
  /\ nTorCryptoNodes = 0
  /\ nThreads = 0
  /\ numCryptoThreadLocks = 0
  /\ cryptoThreadLocks = NoLocks
  /\ mutex = [m \in {PrimaryLock, SecondaryLock} |-> NoThread]
  /\ worker = [t \in Threads |-> NULL]
  /\ consensusCounter = [t \in Threads |-> 0]
  /\ files = {}
  /\ vtable = [t \in Threads |-> {}]
  /\ pc = [t \in Threads |-> "idle"]
  /\ arg = [t \in Threads |-> 0]
  /\ result = [t \in Threads |-> 0]
  /\ crashed = FALSE
  /\ arrayInFlux = FALSE
  /\ issued = [init |-> 0, clear |-> 0, early |-> 0, ginit |-> 0, gcleanup |-> 0,
               write |-> 0]
  /\ calls = [tor_ssl_global_init |-> 0, crypto_global_init |-> 0,
              crypto_global_cleanup |-> 0, crypto_early_init |-> 0,
              crypto_seed_rng |-> 0, crypto_init_siphash_key |-> 0,
              write_str_to_file |-> 0]
  /\ hist = [initReturned |-> FALSE, fastSeen |-> FALSE, delegFailed |-> FALSE,
             nodesInOrder |-> TRUE, setupInOrder |-> TRUE,
             allocs |-> 0, frees |-> 0, strayReturned |-> FALSE,
             aux |-> [t \in Threads |-> << >>],
             writeResult |-> [t \in Threads |-> << >>],
             delegated |-> [t \in Threads |-> << >>],
             cleared |-> {}]
  /\ lastId = [t \in Threads |-> NULL]

\* a thread is in the code of the Tor module, outside every interposed call
Idle(t) == pc[t] = "idle" /\ ~crashed
\* shadowtorpreload_init ran on this thread: its mandatory entries resolved
Bound(t) == worker[t] # NULL /\ MandatorySyms \subseteq vtable[t]

\* G_LOCK blocks until the mutex is free
Acquire(m, t) == mutex' = [mutex EXCEPT ![m] = t]
Release(m) == mutex' = [mutex EXCEPT ![m] = NoThread]

(* ------------------------------------------------- WorkerContextRegistry *)
\* if(!worker)
NeedWorkerAlways(w) == TRUE
NeedWorker(w) == w = NULL

\* the pointers _shadowtorpreload_getWorker can return on thread t: the one
\* stored under the thread's GPrivate key, or a g_new0 block that no live
\* worker occupies
shadowtorpreload_getWorker(t) ==
  IF NeedWorker(worker[t])
  THEN Addrs \ {worker[u] : u \in Threads}
  ELSE {worker[t]}

\* shadowtorpreload_init up to the call of _shadowtorpreload_cryptoSetup
shadowtorpreload_init(t, handle, nLocks) ==
  /\ Idle(t)
  /\ issued.init < MaxBind
  /\ \E w \in shadowtorpreload_getWorker(t) :
       worker' = [worker EXCEPT ![t] = w]
  /\ vtable' = [vtable EXCEPT ![t] = MandatorySyms \cup handle]
  /\ arg' = [arg EXCEPT ![t] = nLocks]
  /\ pc' = [pc EXCEPT ![t] = "setup_lock"]
  /\ issued' = Inc(issued, "init")
  /\ hist' = [hist EXCEPT !.setupInOrder = @ /\ issued.clear = 0,
                          !.cleared = @ \ {t}]
  /\ UNCHANGED <<global, mutex, consensusCounter, files, result, crashed,
                 arrayInFlux, calls, lastId>>

\* shadowtorpreload_clear up to the call of _shadowtorpreload_cryptoTeardown
shadowtorpreload_clear(t) ==
  /\ Idle(t)
  /\ issued.clear < MaxClear
  /\ pc' = [pc EXCEPT ![t] = "teardown_lock"]
  /\ issued' = Inc(issued, "clear")
  /\ hist' = [hist EXCEPT !.setupInOrder =
                            @ /\ \A u \in Threads : pc[u] \notin {"setup_lock", "setup_cs"},
                          !.cleared = @ \cup {t}]
  /\ UNCHANGED <<global, mutex, worker, consensusCounter, files, vtable, arg,
                 result, crashed, arrayInFlux, calls, lastId>>

\* _shadowtorpreload_getIDFunc
shadowtorpreload_getIDFunc(t) ==
  /\ Idle(t)
  /\ \E w \in shadowtorpreload_getWorker(t) :
       /\ worker' = [worker EXCEPT ![t] = w]
       /\ lastId' = [lastId EXCEPT ![t] = w]
  /\ vtable' = IF NeedWorker(worker[t]) THEN [vtable EXCEPT ![t] = {}] ELSE vtable
  /\ UNCHANGED <<global, mutex, consensusCounter, files, pc, arg, result,
                 crashed, arrayInFlux, issued, calls, hist>>

\* the thread ends: the GPrivate destructor g_free releases its worker
ThreadExit(t) ==
  /\ Idle(t)
  /\ worker[t] # NULL
  /\ \A i \in DOMAIN cryptoThreadLocks :
       t \notin cryptoThreadLocks[i].readers /\ cryptoThreadLocks[i].writer # t
  /\ worker' = [worker EXCEPT ![t] = NULL]
  /\ vtable' = [vtable EXCEPT ![t] = {}]
  /\ lastId' = [lastId EXCEPT ![t] = NULL]
  /\ consensusCounter' = [consensusCounter EXCEPT ![t] = 0]
  /\ hist' = [hist EXCEPT !.aux[t] = << >>, !.writeResult[t] = << >>,
                          !.delegated[t] = << >>, !.cleared = @ \ {t}]
  /\ UNCHANGED <<global, mutex, files, pc, arg, result, crashed, arrayInFlux,
                 issued, calls>>

(* --------------------------------------------------------- LockArrayBridge *)
\* G_LOCK(shadowtorpreloadPrimaryLock) in setup and in teardown
SetupLock == PrimaryLock
TeardownLock == PrimaryLock

\* if(!shadowtorpreloadGlobalState.initialized)
SetupNeededAlways == TRUE
SetupNeededEmpty == cryptoThreadLocks = NoLocks
SetupNeeded == ~initialized

\* _shadowtorpreload_cryptoSetup: G_LOCK and the critical section
shadowtorpreload_cryptoSetup(t) ==
  /\ pc[t] = "setup_lock" /\ ~crashed
  /\ mutex[SetupLock] = NoThread
  /\ Acquire(SetupLock, t)
  /\ IF SetupNeeded
     THEN /\ numCryptoThreadLocks' = arg[t]
          /\ cryptoThreadLocks' = g_new0_locks(arg[t])
          /\ initialized' = TRUE
          /\ hist' = Inc(hist, "allocs")
          /\ arrayInFlux' = TRUE
     ELSE UNCHANGED <<numCryptoThreadLocks, cryptoThreadLocks, initialized,
                      hist, arrayInFlux>>
  /\ nThreads' = nThreads + 1
  /\ pc' = [pc EXCEPT ![t] = "setup_cs"]
  /\ UNCHANGED <<sslInitializedEarly, sslInitializedGlobal, nTorCryptoNodes,
                 worker, consensusCounter, files, vtable, arg, result,
                 crashed, issued, calls, lastId>>

\* _shadowtorpreload_cryptoSetup: G_UNLOCK and return
shadowtorpreload_cryptoSetup_unlock(t) ==
  /\ pc[t] = "setup_cs" /\ ~crashed
  /\ Release(SetupLock)
  /\ arrayInFlux' = FALSE
  /\ pc' = [pc EXCEPT ![t] = "idle"]
  /\ UNCHANGED <<global, worker, consensusCounter, files, vtable, arg, result,
                 crashed, issued, calls, hist, lastId>>

\* the && chain of teardown short-circuits: nThreads is decremented only
\* when initialized is set and the array pointer is not NULL
TeardownDecrements == initialized /\ cryptoThreadLocks # NoLocks
TeardownFreesAlways == TeardownDecrements
TeardownFrees == TeardownDecrements /\ nThreads - 1 = 0

\* _shadowtorpreload_cryptoTeardown: G_LOCK and the critical section
shadowtorpreload_cryptoTeardown(t) ==
  /\ pc[t] = "teardown_lock" /\ ~crashed
  /\ mutex[TeardownLock] = NoThread
  /\ Acquire(TeardownLock, t)
  /\ nThreads' = IF TeardownDecrements THEN nThreads - 1 ELSE nThreads
  /\ IF TeardownFrees
     THEN /\ cryptoThreadLocks' = NoLocks
          /\ initialized' = FALSE
          /\ hist' = Inc(hist, "frees")
          /\ arrayInFlux' = TRUE
     ELSE UNCHANGED <<cryptoThreadLocks, initialized, hist, arrayInFlux>>
  /\ pc' = [pc EXCEPT ![t] = "teardown_cs"]
  /\ UNCHANGED <<sslInitializedEarly, sslInitializedGlobal, nTorCryptoNodes,
                 numCryptoThreadLocks, worker, consensusCounter, files,
                 vtable, arg, result, crashed, issued, calls, lastId>>

\* _shadowtorpreload_cryptoTeardown: G_UNLOCK and return
shadowtorpreload_cryptoTeardown_unlock(t) ==
  /\ pc[t] = "teardown_cs" /\ ~crashed
  /\ Release(TeardownLock)
  /\ arrayInFlux' = FALSE
  /\ pc' = [pc EXCEPT ![t] = "idle"]
  /\ UNCHANGED <<global, worker, consensusCounter, files, vtable, arg, result,
                 crashed, issued, calls, hist, lastId>>

\* &(shadowtorpreloadGlobalState.cryptoThreadLocks[n])
LockEntryFirst(n) == 0
LockEntry(n) == n

\* the GRWLock after the call the mode selects; g_rw_lock_reader_lock waits
\* while a writer holds the lock, g_rw_lock_writer_lock while anyone does
RWLockEnabled(l, mode, t) ==
  IF "CRYPTO_LOCK" \in mode
  THEN IF "CRYPTO_READ" \in mode
       THEN l.writer = NoThread /\ t \notin l.readers
       ELSE IF "CRYPTO_WRITE" \in mode
            THEN l.writer = NoThread /\ l.readers = {}
            ELSE TRUE
  ELSE IF "CRYPTO_UNLOCK" \in mode
       THEN IF "CRYPTO_READ" \in mode
            THEN t \in l.readers
            ELSE IF "CRYPTO_WRITE" \in mode THEN l.writer = t ELSE TRUE
       ELSE TRUE

RWLockAfter(l, mode, t) ==
  IF "CRYPTO_LOCK" \in mode
  THEN IF "CRYPTO_READ" \in mode
       THEN [l EXCEPT !.readers = @ \cup {t}]
       ELSE IF "CRYPTO_WRITE" \in mode THEN [l EXCEPT !.writer = t] ELSE l
  ELSE IF "CRYPTO_UNLOCK" \in mode
       THEN IF "CRYPTO_READ" \in mode
            THEN [l EXCEPT !.readers = @ \ {t}]
            ELSE IF "CRYPTO_WRITE" \in mode
                 THEN [l EXCEPT !.writer = NoThread]
                 ELSE l
       ELSE l

\* _shadowtorpreload_cryptoLockingFunc with the array set up and n inside it
shadowtorpreload_cryptoLockingFunc(t, mode, n) ==
  /\ Idle(t)
  /\ initialized
  /\ n \in DOMAIN cryptoThreadLocks
  /\ LockEntry(n) \in DOMAIN cryptoThreadLocks
  /\ RWLockEnabled(cryptoThreadLocks[LockEntry(n)], mode, t)
  /\ cryptoThreadLocks' =
       [cryptoThreadLocks EXCEPT ![LockEntry(n)] = RWLockAfter(@, mode, t)]
  /\ UNCHANGED <<initialized, sslInitializedEarly, sslInitializedGlobal,
                 nTorCryptoNodes, nThreads, numCryptoThreadLocks, mutex,
                 worker, consensusCounter, files, vtable, pc, arg, result,
                 crashed, arrayInFlux, issued, calls, hist, lastId>>

\* assert(shadowtorpreloadGlobalState.initialized) fails: the process aborts
shadowtorpreload_cryptoLockingFunc_assert(t) ==
  /\ Idle(t)
  /\ ~initialized
  /\ crashed' = TRUE
  /\ UNCHANGED <<global, mutex, worker, consensusCounter, files, vtable, pc,
                 arg, result, arrayInFlux, issued, calls, hist, lastId>>

\* the callback reads initialized and the array pointer without taking the
\* lock setup and teardown write them under: a call that overlaps those
\* writes is a data race. Besides the two outcomes above (every write seen)
\* it can see the fields of before the writes or only some of them, and then
\* the assert fails or a stale or freed pointer is dereferenced
shadowtorpreload_cryptoLockingFunc_race(t) ==
  /\ Idle(t)
  /\ arrayInFlux
  /\ crashed' = TRUE
  /\ UNCHANGED <<global, mutex, worker, consensusCounter, files, vtable, pc,
                 arg, result, arrayInFlux, issued, calls, hist, lastId>>

\* _shadowtorpreload_cryptoLockingFunc with initialized set and n outside the
\* array: no test of n against numCryptoThreadLocks exists. With
\* cryptoThreadLocks NULL, entry 0 is the NULL pointer and assert(lock)
\* fails, and any other entry is an unmapped address: the process dies. With
\* an array, &cryptoThreadLocks[n] is a non-NULL pointer outside the
\* allocation and the g_rw_lock_* call on it is undefined: the process dies
\* or the call returns having used memory that is no entry of the array
shadowtorpreload_cryptoLockingFunc_stray(t, n, returns) ==
  /\ Idle(t)
  /\ initialized
  /\ n \notin DOMAIN cryptoThreadLocks
  /\ returns => cryptoThreadLocks # NoLocks
  /\ crashed' = ~returns
  /\ hist' = [hist EXCEPT !.strayReturned = @ \/ returns]
  /\ UNCHANGED <<global, mutex, worker, consensusCounter, files, vtable, pc,
                 arg, result, arrayInFlux, issued, calls, lastId>>

(* ---------------------------------------------------- GlobalCryptoCoordinator *)
\* the G_LOCK each interposer takes
EarlyInitLockPrimary == PrimaryLock
EarlyInitLock == SecondaryLock
GlobalInitLock == PrimaryLock
GlobalCleanupLockSecondary == SecondaryLock
GlobalCleanupLock == PrimaryLock

\* G_LOCK(shadowtorpreloadPrimaryLock) in crypto_global_init returns
GlobalInitMayEnterUnlocked == TRUE
GlobalInitMayEnter == mutex[GlobalInitLock] = NoThread

\* if(!shadowtorpreloadGlobalState.sslInitializedEarly)
EarlyInitNeededGlobalLatch == ~sslInitializedGlobal
EarlyInitNeededFirstNode == nTorCryptoNodes = 0
EarlyInitNeeded == ~sslInitializedEarly

\* if(!shadowtorpreloadGlobalState.sslInitializedGlobal)
GlobalInitNeededFirstNode == nTorCryptoNodes = 0
GlobalInitNeeded == ~sslInitializedGlobal

\* shadowtorpreloadGlobalState.nTorCryptoNodes++, ahead of the latch test
NodesAfterInitWhenNeeded(n) == IF GlobalInitNeeded THEN n + 1 ELSE n
NodesAfterInit(n) == n + 1

\* if(--shadowtorpreloadGlobalState.nTorCryptoNodes == 0), n the new value
CleanupNeededNonPositive(n) == n <= 0
CleanupNeeded(n) == n = 0

\* result = vtable.entry(...): the delegate's value is stored as it is
ResultOfNormalised(r) == IF r < 0 THEN 0 - 1 ELSE r
ResultOf(r) == r

\* a call through a vtable entry: the thread is inside the Tor module until
\* the call returns; calling a NULL entry kills the process
CallDelegate(t, sym, at) ==
  IF sym \in vtable[t]
  THEN /\ pc' = [pc EXCEPT ![t] = at]
       /\ calls' = Inc(calls, sym)
       /\ UNCHANGED <<crashed, arrayInFlux>>
  ELSE /\ pc' = [pc EXCEPT ![t] = "dead"]
       /\ calls' = calls
       /\ crashed' = TRUE
       /\ UNCHANGED arrayInFlux

(* crypto_early_init *)
crypto_early_init_call(t) ==
  /\ Idle(t) /\ Bound(t)
  /\ issued.early < MaxEarlyInit
  /\ pc' = [pc EXCEPT ![t] = "ei_lock"]
  /\ issued' = Inc(issued, "early")
  /\ hist' = [hist EXCEPT !.delegated[t] = << >>]
  /\ UNCHANGED <<global, mutex, worker, consensusCounter, files, vtable, arg,
                 result, crashed, arrayInFlux, calls, lastId>>

\* G_LOCK, result = 0, and the branch on the latch up to the first call
crypto_early_init(t) ==
  /\ pc[t] = "ei_lock" /\ ~crashed
  /\ mutex[EarlyInitLock] = NoThread
  /\ Acquire(EarlyInitLock, t)
  /\ result' = [result EXCEPT ![t] = 0]
  /\ IF EarlyInitNeeded
     THEN /\ sslInitializedEarly' = TRUE
          /\ IF "crypto_early_init" \in vtable[t]
             THEN CallDelegate(t, "crypto_early_init", "ei_early")
             ELSE /\ pc' = [pc EXCEPT ![t] = "ei_unlock"]
                  /\ UNCHANGED <<calls, crashed, arrayInFlux>>
     ELSE /\ UNCHANGED sslInitializedEarly
          /\ IF "crypto_early_init" \in vtable[t]
             THEN CallDelegate(t, "crypto_seed_rng", "ei_seed")
             ELSE /\ pc' = [pc EXCEPT ![t] = "ei_unlock"]
                  /\ UNCHANGED <<calls, crashed, arrayInFlux>>
  /\ UNCHANGED <<initialized, sslInitializedGlobal, nTorCryptoNodes, nThreads,
                 numCryptoThreadLocks, cryptoThreadLocks, worker,
                 consensusCounter, files, vtable, arg, issued, hist, lastId>>

\* vtable.crypto_early_init() returns r
crypto_early_init_delegate_return(t, r) ==
  /\ pc[t] = "ei_early" /\ ~crashed
  /\ result' = [result EXCEPT ![t] = ResultOf(r)]
  /\ pc' = [pc EXCEPT ![t] = "ei_unlock"]
  /\ hist' = [hist EXCEPT !.delegFailed = @ \/ r # 0, !.delegated[t] = <<r>>]
  /\ UNCHANGED <<global, mutex, worker, consensusCounter, files, vtable, arg,
                 crashed, arrayInFlux, issued, calls, lastId>>

\* vtable.crypto_seed_rng(1) returns r; vtable.crypto_init_siphash_key is called
crypto_seed_rng_return(t, r) ==
  /\ pc[t] = "ei_seed" /\ ~crashed
  /\ result' = [result EXCEPT ![t] = IF r < 0 THEN -1 ELSE @]
  /\ CallDelegate(t, "crypto_init_siphash_key", "ei_siphash")
  /\ hist' = [hist EXCEPT !.delegFailed = @ \/ r # 0]
  /\ UNCHANGED <<global, mutex, worker, consensusCounter, files, vtable, arg,
                 issued, lastId>>

\* vtable.crypto_init_siphash_key() returns r
crypto_init_siphash_key_return(t, r) ==
  /\ pc[t] = "ei_siphash" /\ ~crashed
  /\ result' = [result EXCEPT ![t] = IF r < 0 THEN -1 ELSE @]
  /\ pc' = [pc EXCEPT ![t] = "ei_unlock"]
  /\ hist' = [hist EXCEPT !.delegFailed = @ \/ r # 0]
  /\ UNCHANGED <<global, mutex, worker, consensusCounter, files, vtable, arg,
                 crashed, arrayInFlux, issued, calls, lastId>>

\* G_UNLOCK and return result
crypto_early_init_unlock(t) ==
  /\ pc[t] = "ei_unlock" /\ ~crashed
  /\ Release(EarlyInitLock)
  /\ pc' = [pc EXCEPT ![t] = "idle"]
  /\ UNCHANGED <<global, worker, consensusCounter, files, vtable, arg, result,
                 crashed, arrayInFlux, issued, calls, hist, lastId>>

(* crypto_global_init *)
GlobalInitPcs == {"gi_lock", "gi_ssl", "gi_crypto", "gi_fast", "gi_unlock"}
GlobalCleanupPcs == {"gc_lock", "gc_cleanup", "gc_unlock"}

crypto_global_init_call(t) ==
  /\ Idle(t) /\ Bound(t)
  /\ issued.ginit < MaxGlobalInit
  /\ pc' = [pc EXCEPT ![t] = "gi_lock"]
  /\ issued' = Inc(issued, "ginit")
  /\ hist' = [hist EXCEPT !.nodesInOrder = @ /\ issued.gcleanup = 0,
                          !.delegated[t] = << >>]
  /\ UNCHANGED <<global, mutex, worker, consensusCounter, files, vtable, arg,
                 result, crashed, arrayInFlux, calls, lastId>>

\* the call of vtable.crypto_global_init, if the entry is set
CallCryptoGlobalInit(t) ==
  IF "crypto_global_init" \in vtable[t]
  THEN CallDelegate(t, "crypto_global_init", "gi_crypto")
  ELSE /\ pc' = [pc EXCEPT ![t] = "gi_unlock"]
       /\ UNCHANGED <<calls, crashed, arrayInFlux>>

\* G_LOCK, nTorCryptoNodes++, result = 0, and the branch on the latch up to
\* the first call into the Tor module
crypto_global_init(t) ==
  /\ pc[t] = "gi_lock" /\ ~crashed
  /\ GlobalInitMayEnter
  /\ Acquire(GlobalInitLock, t)
  /\ nTorCryptoNodes' = NodesAfterInit(nTorCryptoNodes)
  /\ result' = [result EXCEPT ![t] = 0]
  /\ IF GlobalInitNeeded
     THEN /\ sslInitializedGlobal' = TRUE
          /\ IF "tor_ssl_global_init" \in vtable[t]
             THEN CallDelegate(t, "tor_ssl_global_init", "gi_ssl")
             ELSE CallCryptoGlobalInit(t)
          /\ UNCHANGED hist
     ELSE /\ UNCHANGED <<sslInitializedGlobal, calls, crashed, arrayInFlux>>
          /\ pc' = [pc EXCEPT ![t] = "gi_fast"]
          /\ hist' = [hist EXCEPT !.fastSeen = TRUE]
  /\ UNCHANGED <<initialized, sslInitializedEarly, nThreads,
                 numCryptoThreadLocks, cryptoThreadLocks, worker,
                 consensusCounter, files, vtable, arg, issued, lastId>>

\* vtable.tor_ssl_global_init() returns; vtable.crypto_global_init is called
tor_ssl_global_init_return(t) ==
  /\ pc[t] = "gi_ssl" /\ ~crashed
  /\ CallCryptoGlobalInit(t)
  /\ UNCHANGED <<global, mutex, worker, consensusCounter, files, vtable, arg,
                 result, issued, hist, lastId>>

\* vtable.crypto_global_init(useAccel, accelName, accelDir) returns r
crypto_global_init_delegate_return(t, r) ==
  /\ pc[t] = "gi_crypto" /\ ~crashed
  /\ result' = [result EXCEPT ![t] = ResultOf(r)]
  /\ pc' = [pc EXCEPT ![t] = "gi_unlock"]
  /\ hist' = [hist EXCEPT !.initReturned = TRUE, !.delegFailed = @ \/ r # 0,
                          !.delegated[t] = <<r>>]
  /\ UNCHANGED <<global, mutex, worker, consensusCounter, files, vtable, arg,
                 crashed, arrayInFlux, issued, calls, lastId>>

\* G_UNLOCK and return result
crypto_global_init_unlock(t) ==
  /\ pc[t] \in {"gi_unlock", "gi_fast"} /\ ~crashed
  /\ Release(GlobalInitLock)
  /\ pc' = [pc EXCEPT ![t] = "idle"]
  /\ UNCHANGED <<global, worker, consensusCounter, files, vtable, arg, result,
                 crashed, arrayInFlux, issued, calls, hist, lastId>>

(* crypto_global_cleanup *)
crypto_global_cleanup_call(t) ==
  /\ Idle(t) /\ Bound(t)
  /\ issued.gcleanup < MaxGlobalCleanup
  /\ pc' = [pc EXCEPT ![t] = "gc_lock"]
  /\ issued' = Inc(issued, "gcleanup")
  /\ hist' = [hist EXCEPT !.nodesInOrder =
                            @ /\ \A u \in Threads : pc[u] \notin GlobalInitPcs,
                          !.delegated[t] = << >>]
  /\ UNCHANGED <<global, mutex, worker, consensusCounter, files, vtable, arg,
                 result, crashed, arrayInFlux, calls, lastId>>

\* G_LOCK, result = 0, the decrement and the branch up to the call
crypto_global_cleanup(t) ==
  /\ pc[t] = "gc_lock" /\ ~crashed
  /\ mutex[GlobalCleanupLock] = NoThread
  /\ Acquire(GlobalCleanupLock, t)
  /\ nTorCryptoNodes' = nTorCryptoNodes - 1
  /\ result' = [result EXCEPT ![t] = 0]
  /\ IF CleanupNeeded(nTorCryptoNodes - 1) /\ "crypto_global_cleanup" \in vtable[t]
     THEN CallDelegate(t, "crypto_global_cleanup", "gc_cleanup")
     ELSE /\ pc' = [pc EXCEPT ![t] = "gc_unlock"]
          /\ UNCHANGED <<calls, crashed, arrayInFlux>>
  /\ UNCHANGED <<initialized, sslInitializedEarly, sslInitializedGlobal,
                 nThreads, numCryptoThreadLocks, cryptoThreadLocks, worker,
                 consensusCounter, files, vtable, arg, issued, hist, lastId>>

\* vtable.crypto_global_cleanup() returns r
crypto_global_cleanup_delegate_return(t, r) ==
  /\ pc[t] = "gc_cleanup" /\ ~crashed
  /\ result' = [result EXCEPT ![t] = ResultOf(r)]
  /\ pc' = [pc EXCEPT ![t] = "gc_unlock"]
  /\ hist' = [hist EXCEPT !.delegFailed = @ \/ r # 0, !.delegated[t] = <<r>>]
  /\ UNCHANGED <<global, mutex, worker, consensusCounter, files, vtable, arg,
                 crashed, arrayInFlux, issued, calls, lastId>>

\* G_UNLOCK and return result
crypto_global_cleanup_unlock(t) ==
  /\ pc[t] = "gc_unlock" /\ ~crashed
  /\ Release(GlobalCleanupLock)
  /\ pc' = [pc EXCEPT ![t] = "idle"]
  /\ UNCHANGED <<global, worker, consensusCounter, files, vtable, arg, result,
                 crashed, arrayInFlux, issued, calls, hist, lastId>>

(* ------------------------------------------------------ InterpositionShim *)
\* g_str_has_suffix(str, suffix)
g_str_has_suffix(str, suffix) == Len(str) > 0 /\ str[Len(str)] = suffix

\* the decimal digits of n >= 0, most significant first
RECURSIVE Decimal(_)
Decimal(n) == IF n < 10 THEN <<n>> ELSE Append(Decimal(n \div 10), n % 10)

\* zero padding on the left up to width w
RECURSIVE ZeroPad(_, _)
ZeroPad(ds, w) == IF Len(ds) >= w THEN ds ELSE ZeroPad(<<0>> \o ds, w)

\* the text "%03i" prints for n >= 0
Printf03i(n) == ZeroPad(Decimal(n), 3)

\* the value of consensusCounter++ : the counter before the increment
ConsensusNumberPre(c) == c + 1
ConsensusNumber(c) == c

\* g_string_new(fname) followed by g_string_append_printf(newPath, ".%03i", n)
NewPath(fname, n) == fname \o <<".">> \o Printf03i(n)

\* write_str_to_file up to the call of vtable.write_str_to_file; auxOk is
\* the outcome of g_file_set_contents, whose failure is only logged
write_str_to_file(t, fname, auxOk) ==
  /\ Idle(t) /\ Bound(t)
  /\ issued.write < MaxWrite
  /\ IF g_str_has_suffix(fname, ConsensusSuffix)
     THEN /\ consensusCounter' = [consensusCounter EXCEPT ![t] = @ + 1]
          /\ files' = IF auxOk
                      THEN files \cup {NewPath(fname, ConsensusNumber(consensusCounter[t]))}
                      ELSE files
          /\ hist' = [hist EXCEPT !.aux[t] =
                        Append(@, [name |-> NewPath(fname, ConsensusNumber(consensusCounter[t])),
                                   path |-> fname, ok |-> auxOk])]
     ELSE UNCHANGED <<consensusCounter, files, hist>>
  /\ CallDelegate(t, "write_str_to_file", "ws_write")
  /\ issued' = Inc(issued, "write")
  /\ UNCHANGED <<global, mutex, worker, vtable, arg, result, lastId>>

\* vtable.write_str_to_file(fname, str, bin) returns r, which is returned
write_str_to_file_return(t, r) ==
  /\ pc[t] = "ws_write" /\ ~crashed
  /\ result' = [result EXCEPT ![t] = r]
  /\ pc' = [pc EXCEPT ![t] = "idle"]
  /\ hist' = [hist EXCEPT !.writeResult[t] = <<r>>]
  /\ UNCHANGED <<global, mutex, worker, consensusCounter, files, vtable, arg,
                 crashed, arrayInFlux, issued, calls, lastId>>

(* ---------------------------------------------------------- specifications *)
\* shadowtorpreload_init on any thread, with module handles from hs and lock
\* counts from ns
Bind(hs, ns) ==
  \/ \E t \in Threads, h \in hs, n \in ns : shadowtorpreload_init(t, h, n)
  \/ \E t \in Threads : shadowtorpreload_cryptoSetup(t)
  \/ \E t \in Threads : shadowtorpreload_cryptoSetup_unlock(t)

Clear ==
  \/ \E t \in Threads : shadowtorpreload_clear(t)
  \/ \E t \in Threads : shadowtorpreload_cryptoTeardown(t)
  \/ \E t \in Threads : shadowtorpreload_cryptoTeardown_unlock(t)

EarlyInit ==
  \/ \E t \in Threads : crypto_early_init_call(t)
  \/ \E t \in Threads : crypto_early_init(t)
  \/ \E t \in Threads, r \in DelegateResults : crypto_early_init_delegate_return(t, r)
  \/ \E t \in Threads, r \in DelegateResults : crypto_seed_rng_return(t, r)
  \/ \E t \in Threads, r \in DelegateResults : crypto_init_siphash_key_return(t, r)
  \/ \E t \in Threads : crypto_early_init_unlock(t)

GlobalInit ==
  \/ \E t \in Threads : crypto_global_init_call(t)
  \/ \E t \in Threads : crypto_global_init(t)
  \/ \E t \in Threads : tor_ssl_global_init_return(t)
  \/ \E t \in Threads, r \in DelegateResults : crypto_global_init_delegate_return(t, r)
  \/ \E t \in Threads : crypto_global_init_unlock(t)

GlobalCleanup ==
  \/ \E t \in Threads : crypto_global_cleanup_call(t)
  \/ \E t \in Threads : crypto_global_cleanup(t)
  \/ \E t \in Threads, r \in DelegateResults : crypto_global_cleanup_delegate_return(t, r)
  \/ \E t \in Threads : crypto_global_cleanup_unlock(t)

Locking ==
  \/ \E t \in Threads, m \in LockModes, n \in 0..(MaxLocks - 1) :
       shadowtorpreload_cryptoLockingFunc(t, m, n)
  \/ \E t \in Threads : shadowtorpreload_cryptoLockingFunc_assert(t)
  \/ \E t \in Threads : shadowtorpreload_cryptoLockingFunc_race(t)

Write ==
  \/ \E t \in Threads, f \in Paths, ok \in BOOLEAN : write_str_to_file(t, f, ok)
  \/ \E t \in Threads, r \in DelegateResults : write_str_to_file_return(t, r)

LockingStray ==
  \E t \in Threads, n \in LockIndices, returns \in BOOLEAN :
    shadowtorpreload_cryptoLockingFunc_stray(t, n, returns)

Workers ==
  \/ \E t \in Threads : shadowtorpreload_getIDFunc(t)
  \/ \E t \in Threads : ThreadExit(t)

\* the global-init/cleanup coordinator, every thread bound to a full module
NextGlobal == Bind({FullHandle}, {MaxLocks}) \/ GlobalInit \/ GlobalCleanup
SpecGlobal == Init /\ [][NextGlobal]_vars

\* the early-init latch, over every set of optional symbols
NextEarly == Bind(Handles, {MaxLocks}) \/ EarlyInit
SpecEarly == Init /\ [][NextEarly]_vars

\* the life cycle of the lock array, over every lock count
NextSetup == Bind({FullHandle}, LockCounts) \/ Clear
SpecSetup == Init /\ [][NextSetup]_vars

\* the per-thread worker registry and the id callback
NextWorker == Bind({FullHandle}, {MaxLocks}) \/ Clear \/ Workers
SpecWorker == Init /\ [][NextWorker]_vars

\* the locking callback on an allocated array
NextLocking == Bind({FullHandle}, {MaxLocks}) \/ Locking
SpecLocking == Init /\ [][NextLocking]_vars

\* the write_str_to_file interposer over thread lives
NextWrite ==
  \/ Bind({FullHandle}, {MaxLocks})
  \/ Write
  \/ \E t \in Threads : ThreadExit(t)
SpecWrite == Init /\ [][NextWrite]_vars

\* the locking callback with any index, on arrays of every lock count
NextIndex == Bind({FullHandle}, LockCounts) \/ Locking \/ LockingStray
SpecIndex == Init /\ [][NextIndex]_vars

\* every operation that takes one of the two G_LOCKs, MaxMutexOps calls in all
TotalIssued ==
  issued.init + issued.clear + issued.early + issued.ginit + issued.gcleanup

MutexBudget == TotalIssued < MaxMutexOps

MutexCalls ==
  \/ \E t \in Threads : MutexBudget /\ shadowtorpreload_init(t, FullHandle, MaxLocks)
  \/ \E t \in Threads : MutexBudget /\ shadowtorpreload_clear(t)
  \/ \E t \in Threads : MutexBudget /\ crypto_early_init_call(t)
  \/ \E t \in Threads : MutexBudget /\ crypto_global_init_call(t)
  \/ \E t \in Threads : MutexBudget /\ crypto_global_cleanup_call(t)

MutexSteps ==
  \/ \E t \in Threads : shadowtorpreload_cryptoSetup(t)
  \/ \E t \in Threads : shadowtorpreload_cryptoSetup_unlock(t)
  \/ \E t \in Threads : shadowtorpreload_cryptoTeardown(t)
  \/ \E t \in Threads : shadowtorpreload_cryptoTeardown_unlock(t)
  \/ \E t \in Threads : crypto_early_init(t)
  \/ \E t \in Threads, r \in DelegateResults : crypto_early_init_delegate_return(t, r)
  \/ \E t \in Threads, r \in DelegateResults : crypto_seed_rng_return(t, r)
  \/ \E t \in Threads, r \in DelegateResults : crypto_init_siphash_key_return(t, r)
  \/ \E t \in Threads : crypto_early_init_unlock(t)
  \/ \E t \in Threads : crypto_global_init(t)
  \/ \E t \in Threads : tor_ssl_global_init_return(t)
  \/ \E t \in Threads, r \in DelegateResults : crypto_global_init_delegate_return(t, r)
  \/ \E t \in Threads : crypto_global_init_unlock(t)
  \/ \E t \in Threads : crypto_global_cleanup(t)
  \/ \E t \in Threads, r \in DelegateResults : crypto_global_cleanup_delegate_return(t, r)
  \/ \E t \in Threads : crypto_global_cleanup_unlock(t)

NextMutex == MutexCalls \/ MutexSteps
SpecMutex == Init /\ [][NextMutex]_vars

\* the three latch and count interposers with every result code of their
\* delegates, MaxMutexOps calls in all
NextResult ==
  \/ \E t \in Threads : MutexBudget /\ shadowtorpreload_init(t, FullHandle, MaxLocks)
  \/ \E t \in Threads : shadowtorpreload_cryptoSetup(t)
  \/ \E t \in Threads : shadowtorpreload_cryptoSetup_unlock(t)
  \/ \E t \in Threads : MutexBudget /\ crypto_early_init_call(t)
  \/ \E t \in Threads : crypto_early_init(t)
  \/ \E t \in Threads, r \in ResultCodes : crypto_early_init_delegate_return(t, r)
  \/ \E t \in Threads, r \in ResultCodes : crypto_seed_rng_return(t, r)
  \/ \E t \in Threads, r \in ResultCodes : crypto_init_siphash_key_return(t, r)
  \/ \E t \in Threads : crypto_early_init_unlock(t)
  \/ \E t \in Threads : MutexBudget /\ crypto_global_init_call(t)
  \/ \E t \in Threads : crypto_global_init(t)
  \/ \E t \in Threads : tor_ssl_global_init_return(t)
  \/ \E t \in Threads, r \in ResultCodes : crypto_global_init_delegate_return(t, r)
  \/ \E t \in Threads : crypto_global_init_unlock(t)
  \/ \E t \in Threads : MutexBudget /\ crypto_global_cleanup_call(t)
  \/ \E t \in Threads : crypto_global_cleanup(t)
  \/ \E t \in Threads, r \in ResultCodes : crypto_global_cleanup_delegate_return(t, r)
  \/ \E t \in Threads : crypto_global_cleanup_unlock(t)
SpecResult == Init /\ [][NextResult]_vars

(* ------------------------------------------------------------- properties *)
\* calls of an entry point that have passed its G_LOCK
GlobalInitEntered ==
  issued.ginit - Cardinality({t \in Threads : pc[t] = "gi_lock"})
GlobalCleanupEntered ==
  issued.gcleanup - Cardinality({t \in Threads : pc[t] = "gc_lock"})
EarlyInitEntered ==
  issued.early - Cardinality({t \in Threads : pc[t] = "ei_lock"})
TeardownEntered ==
  issued.clear - Cardinality({t \in Threads : pc[t] = "teardown_lock"})

\* no thread is inside crypto_global_init or crypto_global_cleanup
NodesQuiescent ==
  \A t \in Threads : pc[t] \notin GlobalInitPcs \cup GlobalCleanupPcs

\* C1: over the whole run the Tor module's tor_ssl_global_init and
\* crypto_global_init are each called exactly once, by the first
\* crypto_global_init to get past G_LOCK (tor_ssl_global_init first), and
\* never again: not by later calls, not after a cleanup that brought
\* nTorCryptoNodes back to 0.
C1_RealInitExactlyOnce ==
  /\ calls.tor_ssl_global_init = (IF GlobalInitEntered > 0 THEN 1 ELSE 0)
  /\ calls.crypto_global_init =
       (IF GlobalInitEntered > 0 /\ \A t \in Threads : pc[t] # "gi_ssl"
        THEN 1 ELSE 0)

\* a crypto_global_init that follows a full cleanup is on the latched path
C1_Witness ==
  /\ calls.crypto_global_init = 1
  /\ calls.crypto_global_cleanup = 1
  /\ nTorCryptoNodes = 1
  /\ \E t \in Threads : pc[t] = "gi_fast"

\* C2: a crypto_global_cleanup calls the Tor module's crypto_global_cleanup
\* if and only if its decrement takes nTorCryptoNodes from 1 to 0; any other
\* crypto_global_cleanup goes straight to its return with result 0; and the
\* delegate is called in no other step.
C2_Step ==
  /\ \A t \in Threads :
       (pc[t] = "gc_lock" /\ pc'[t] # "gc_lock") =>
         /\ nTorCryptoNodes' = nTorCryptoNodes - 1
         /\ (pc'[t] = "gc_cleanup") <=> (nTorCryptoNodes = 1 /\ nTorCryptoNodes' = 0)
         /\ (pc'[t] = "gc_cleanup") <=>
              (calls.crypto_global_cleanup' = calls.crypto_global_cleanup + 1)
         /\ (pc'[t] # "gc_cleanup") =>
              (pc'[t] = "gc_unlock" /\ result'[t] = 0 /\ calls' = calls)
  /\ (calls.crypto_global_cleanup' # calls.crypto_global_cleanup) =>
       \E t \in Threads : pc[t] = "gc_lock" /\ pc'[t] = "gc_cleanup"
C2_CleanupIffLastNode == [][C2_Step]_vars

\* two nodes came and went: the first cleanup skipped the delegate, the
\* second one called it
C2_Witness ==
  /\ GlobalInitEntered = 2
  /\ GlobalCleanupEntered = 2
  /\ nTorCryptoNodes = 0
  /\ calls.crypto_global_cleanup = 1
  /\ \E t \in Threads : pc[t] = "gc_cleanup"

\* C9: once any crypto_global_init has seen sslInitializedGlobal set (and so
\* skips the delegates), the delegate init started by the latch-setting call
\* has returned: no thread is inside tor_ssl_global_init or the Tor module's
\* crypto_global_init.
C9_LatchSeenAfterInitDone ==
  hist.fastSeen =>
    /\ hist.initReturned
    /\ \A t \in Threads : pc[t] \notin {"gi_ssl", "gi_crypto"}

\* a call has returned on the latched path
C9_Witness ==
  /\ hist.fastSeen
  /\ hist.initReturned
  /\ \A t \in Threads : pc[t] \notin GlobalInitPcs

\* C10: every crypto_global_init increments nTorCryptoNodes, so that with no
\* thread inside init or cleanup the count is the number of init calls minus
\* the number of cleanup calls; a call on the latched path returns 0, and
\* with succeeding delegates every call returns 0; n init calls from count 0
\* followed by n cleanup calls end at 0 with one real init and one real
\* cleanup (Scenario A is n = 2).
C10_NodeAccounting ==
  /\ NodesQuiescent => nTorCryptoNodes = issued.ginit - issued.gcleanup
  /\ \A t \in Threads : pc[t] = "gi_fast" => result[t] = 0
  /\ ~hist.delegFailed =>
       \A t \in Threads : pc[t] \in {"gi_fast", "gi_unlock"} => result[t] = 0
  /\ (hist.nodesInOrder /\ NodesQuiescent /\ issued.ginit >= 1) =>
       /\ calls.crypto_global_init = 1
       /\ issued.gcleanup = 0 => nTorCryptoNodes = issued.ginit
       /\ issued.gcleanup = issued.ginit =>
            (nTorCryptoNodes = 0 /\ calls.crypto_global_cleanup = 1)

\* Scenario A has run to its end
C10_Witness ==
  /\ hist.nodesInOrder /\ ~hist.delegFailed /\ NodesQuiescent
  /\ issued.ginit = 2 /\ issued.gcleanup = 2
  /\ nTorCryptoNodes = 0
  /\ calls.crypto_global_init = 1 /\ calls.crypto_global_cleanup = 1

C3_Step ==
  /\ \A t \in Threads :
       (pc[t] = "ei_lock" /\ pc'[t] # "ei_lock") =>
         /\ (pc'[t] = "ei_early") <=>
              (EarlyInitEntered = 0 /\ "crypto_early_init" \in vtable[t])
         /\ (pc'[t] = "ei_early") <=>
              (calls.crypto_early_init' = calls.crypto_early_init + 1)
         /\ (pc'[t] # "ei_early") =>
              calls.crypto_early_init' = calls.crypto_early_init
         /\ calls.crypto_init_siphash_key' = calls.crypto_init_siphash_key
         /\ EarlyInitEntered = 0 => calls.crypto_seed_rng' = calls.crypto_seed_rng
  /\ (calls.crypto_early_init' # calls.crypto_early_init) =>
       \E t \in Threads : pc[t] = "ei_lock" /\ pc'[t] = "ei_early"
  /\ (calls.crypto_seed_rng' # calls.crypto_seed_rng) =>
       /\ calls.crypto_seed_rng' = calls.crypto_seed_rng + 1
       /\ \E t \in Threads : pc[t] = "ei_lock" /\ pc'[t] = "ei_seed"
  /\ (calls.crypto_init_siphash_key' # calls.crypto_init_siphash_key) =>
       /\ calls.crypto_init_siphash_key' = calls.crypto_init_siphash_key + 1
       /\ \E t \in Threads : pc[t] = "ei_seed" /\ pc'[t] = "ei_siphash"
SetupQuiescent == \A t \in Threads : pc[t] \notin {"setup_lock", "setup_cs"}

\* C4: the lock array is present (initialized is set) exactly while
\* nThreads > 0, for every numLocks; the pointer cryptoThreadLocks is an array
\* of numCryptoThreadLocks locks when that count is positive and NULL when it
\* is 0; the array is allocated only in a step that takes nThreads from 0 to
\* 1 and freed only in a step that takes it from 1 to 0.
C4_Present ==
  /\ initialized <=> nThreads > 0
  /\ nThreads >= 0
  /\ cryptoThreadLocks # NoLocks <=> (initialized /\ numCryptoThreadLocks > 0)
  /\ initialized => DOMAIN cryptoThreadLocks = 0..(numCryptoThreadLocks - 1)
C4_Step ==
  /\ (hist.allocs' # hist.allocs) =>
       (nThreads = 0 /\ nThreads' = 1 /\ ~initialized /\ initialized')
  /\ (hist.frees' # hist.frees) =>
       (nThreads = 1 /\ nThreads' = 0 /\ initialized /\ ~initialized'
        /\ cryptoThreadLocks' = NoLocks)
  /\ (initialized' # initialized) =>
       (hist.allocs' # hist.allocs \/ hist.frees' # hist.frees)
C4_ArrayIffThreads == []C4_Present /\ [][C4_Step]_vars

\* the array was allocated, freed by the last teardown, and allocated again
C4_Witness ==
  /\ hist.allocs = 2
  /\ hist.frees = 1
  /\ initialized
  /\ nThreads = 1

\* C5: N setups followed by N teardowns allocate the array once and free it
\* once: no teardown before the Nth frees it, and after the Nth it is absent.
C5_AllocOnceFreeOnce ==
  (hist.setupInOrder /\ SetupQuiescent /\ issued.init >= 1
     /\ TeardownEntered <= issued.init) =>
    /\ hist.allocs = 1
    /\ TeardownEntered < issued.init => (hist.frees = 0 /\ initialized)
    /\ TeardownEntered = issued.init =>
         (hist.frees = 1 /\ ~initialized /\ cryptoThreadLocks = NoLocks)

\* the same, for the runs in which the array was allocated with numLocks >= 1
C5_AllocOnceFreeOnce_Positive ==
  numCryptoThreadLocks >= 1 => C5_AllocOnceFreeOnce

\* C6: while a thread's PreloadWorker is live the id callback returns the
\* same value on every call of that thread, two threads with live workers
\* never get the same value, and a live worker is never replaced: the worker
\* is created at most once per thread life and is no other live thread's.
C6_Distinct ==
  /\ \A t \in Threads : lastId[t] # NULL => lastId[t] = worker[t]
  /\ \A t, u \in Threads :
       (t # u /\ worker[t] # NULL /\ worker[u] # NULL) => worker[t] # worker[u]
C6_Step ==
  \A t \in Threads :
    /\ (lastId[t] # NULL /\ lastId'[t] # NULL) => lastId'[t] = lastId[t]
    /\ (worker[t] # NULL /\ worker'[t] # NULL) => worker'[t] = worker[t]
C6_StableUniqueId == []C6_Distinct /\ [][C6_Step]_vars

\* every thread has asked for its id while the others' workers are live
C6_Witness ==
  \A t \in Threads : lastId[t] # NULL /\ worker[t] = lastId[t]

\* a thread holds entry j of the lock array, in either mode
Held(j) ==
  cryptoThreadLocks[j].readers # {} \/ cryptoThreadLocks[j].writer # NoThread

\* C7: a write acquire of entry j by a thread outside every call can go
\* ahead whenever no thread holds entry j, whatever is held, in read or write
\* mode, on the other entries: read locking index i never blocks a writer of
\* index j # i.
C7_WriterOnlyWaitsForItsEntry ==
  \A u \in Threads, j \in DOMAIN cryptoThreadLocks :
    (Idle(u) /\ initialized /\ ~Held(j)) =>
      ENABLED shadowtorpreload_cryptoLockingFunc(u, {"CRYPTO_LOCK", "CRYPTO_WRITE"}, j)

\* one thread holds entry i in read mode while another holds entry j # i in
\* write mode
C7_Witness ==
  \E t, u \in Threads, i, j \in DOMAIN cryptoThreadLocks :
    /\ t # u /\ i # j
    /\ t \in cryptoThreadLocks[i].readers
    /\ cryptoThreadLocks[j].writer = u

\* where a thread waits for, and where it holds, each G_LOCK
PrimaryWaitPcs == {"setup_lock", "teardown_lock", "gi_lock", "gc_lock"}
PrimaryHeldPcs ==
  {"setup_cs", "teardown_cs", "gi_ssl", "gi_crypto", "gi_fast", "gi_unlock",
   "gc_cleanup", "gc_unlock"}
SecondaryWaitPcs == {"ei_lock"}
SecondaryHeldPcs == {"ei_early", "ei_seed", "ei_siphash", "ei_unlock", "dead"}

\* the steps of crypto_early_init a thread inside it can take
EarlyInitProgress(t) ==
  \/ crypto_early_init(t)
  \/ \E r \in DelegateResults : crypto_early_init_delegate_return(t, r)
  \/ \E r \in DelegateResults : crypto_seed_rng_return(t, r)
  \/ \E r \in DelegateResults : crypto_init_siphash_key_return(t, r)
  \/ crypto_early_init_unlock(t)

\* the steps of the primary-lock operations a thread inside one can take
PrimaryProgress(t) ==
  \/ shadowtorpreload_cryptoSetup(t)
  \/ shadowtorpreload_cryptoSetup_unlock(t)
  \/ shadowtorpreload_cryptoTeardown(t)
  \/ shadowtorpreload_cryptoTeardown_unlock(t)
  \/ crypto_global_init(t)
  \/ tor_ssl_global_init_return(t)
  \/ \E r \in DelegateResults : crypto_global_init_delegate_return(t, r)
  \/ crypto_global_init_unlock(t)
  \/ crypto_global_cleanup(t)
  \/ \E r \in DelegateResults : crypto_global_cleanup_delegate_return(t, r)
  \/ crypto_global_cleanup_unlock(t)

\* C8: no thread holds both G_LOCKs, none waits for one while holding the
\* other: the primary lock is held exactly by the thread inside setup,
\* teardown, crypto_global_init or crypto_global_cleanup, the secondary lock
\* exactly by the thread inside crypto_early_init; and a thread in
\* crypto_early_init can take its next step whoever holds the primary lock
\* (it waits for the secondary lock alone), and the other way round.
C8_LocksDisjoint ==
  /\ \A t \in Threads : ~(mutex[PrimaryLock] = t /\ mutex[SecondaryLock] = t)
  /\ \A t \in Threads :
       /\ mutex[PrimaryLock] = t <=> pc[t] \in PrimaryHeldPcs
       /\ mutex[SecondaryLock] = t <=> pc[t] \in SecondaryHeldPcs
       /\ pc[t] \in PrimaryWaitPcs => mutex[SecondaryLock] # t
       /\ pc[t] \in SecondaryWaitPcs => mutex[PrimaryLock] # t
  /\ ~crashed =>
       \A t \in Threads :
         /\ (pc[t] \in SecondaryHeldPcs
             \/ (pc[t] \in SecondaryWaitPcs /\ mutex[SecondaryLock] = NoThread))
              => ENABLED EarlyInitProgress(t)
         /\ (pc[t] \in PrimaryHeldPcs
             \/ (pc[t] \in PrimaryWaitPcs /\ mutex[PrimaryLock] = NoThread))
              => ENABLED PrimaryProgress(t)

\* one thread is inside the Tor module's early init, under the secondary
\* lock, while another is inside its global init, under the primary lock
C8_Witness ==
  \E t, u \in Threads : pc[t] = "ei_early" /\ pc[u] = "gi_crypto"

\* C11: nTorCryptoNodes is never negative, and a crypto_global_cleanup whose
\* decrement would take it below 0 does not return normally: the step that
\* decrements a count of 0 or less ends the process.
C11_Step ==
  \A t \in Threads :
    (pc[t] = "gc_lock" /\ pc'[t] # "gc_lock" /\ nTorCryptoNodes <= 0) => crashed'
C11_CleanupNeverNegative == [](nTorCryptoNodes >= 0) /\ [][C11_Step]_vars

\* C12: a locking callback invoked while the array is absent, or with an
\* index outside 0 <= n < numCryptoThreadLocks, ends the process: no such
\* call returns, and the entries of the array change only in a step taken
\* with the array present and on an entry of the array.
C12_Step ==
  (cryptoThreadLocks' # cryptoThreadLocks /\ pc' = pc) =>
    (initialized /\ DOMAIN cryptoThreadLocks' = DOMAIN cryptoThreadLocks)
C12_MisuseAborts == [](~hist.strayReturned) /\ [][C12_Step]_vars

\* the numbers 0, 1, ..., n - 1 as "%03i" prints them
Suffixes(n) == [i \in 1..n |-> Printf03i(i - 1)]

\* C13: on each thread the k-th write_str_to_file of a name ending in
\* "cached-consensus" writes its copy under that name followed by "." and
\* the number k - 1 (0, 1, 2, ... in call order, one number per such write
\* whether the copy could be written or not, whatever the other threads
\* have written); a write of any other name uses up no number; and the value
\* write_str_to_file returns is the one vtable.write_str_to_file returned.
C13_Step ==
  \A t \in Threads :
    /\ (pc[t] = "idle" /\ pc'[t] = "ws_write") =>
         /\ \A u \in Threads \ {t} : consensusCounter'[u] = consensusCounter[u]
         /\ (hist.aux'[t] = hist.aux[t]) <=> (consensusCounter'[t] = consensusCounter[t])
         /\ (hist.aux'[t] # hist.aux[t]) <=> (consensusCounter'[t] = consensusCounter[t] + 1)
    /\ (pc[t] = "ws_write" /\ pc'[t] = "idle") =>
         (result'[t] = hist.writeResult'[t][1] /\ consensusCounter' = consensusCounter)
C13_Names ==
  \A t \in Threads :
    /\ consensusCounter[t] = Len(hist.aux[t])
    /\ \A i \in 1..Len(hist.aux[t]) :
         /\ g_str_has_suffix(hist.aux[t][i].path, ConsensusSuffix)
         /\ hist.aux[t][i].name = hist.aux[t][i].path \o <<".">> \o Suffixes(i)[i]
         /\ hist.aux[t][i].ok => hist.aux[t][i].name \in files
C13_ConsensusNumbering == []C13_Names /\ [][C13_Step]_vars

\* a thread has written three copies, the second of which failed, and its
\* last write_str_to_file returned the failure of the delegate
C13_Witness ==
  \E t \in Threads :
    /\ Len(hist.aux[t]) = 3
    /\ ~hist.aux[t][2].ok /\ hist.aux[t][3].ok
    /\ hist.aux[t][3].name = <<"data/", "cached-consensus", ".", 0, 0, 2>>
    /\ pc[t] = "idle" /\ result[t] = 0 - 1

\* C14: a crypto_early_init that finds sslInitializedEarly set calls
\* crypto_seed_rng(1) exactly when the caller's vtable has that entry, then
\* crypto_init_siphash_key() exactly when the vtable has that one, whatever
\* the vtable says about crypto_early_init; an entry that is NULL is never
\* called, and with both NULL the call goes straight to its return with
\* result 0.
C14_Step ==
  \A t \in Threads :
    /\ (pc[t] = "ei_lock" /\ pc'[t] # "ei_lock" /\ sslInitializedEarly) =>
         /\ ~crashed'
         /\ (pc'[t] = "ei_seed") <=> ("crypto_seed_rng" \in vtable[t])
         /\ (pc'[t] = "ei_siphash") <=>
              ("crypto_seed_rng" \notin vtable[t]
               /\ "crypto_init_siphash_key" \in vtable[t])
         /\ (pc'[t] = "ei_unlock") <=>
              ({"crypto_seed_rng", "crypto_init_siphash_key"} \cap vtable[t] = {})
         /\ (pc'[t] = "ei_unlock") => result'[t] = 0
    /\ (pc[t] = "ei_seed" /\ pc'[t] # "ei_seed") =>
         /\ ~crashed'
         /\ (pc'[t] = "ei_siphash") <=> ("crypto_init_siphash_key" \in vtable[t])
C14_ReseedPerEntry == [][C14_Step]_vars

\* the pcs from which crypto_early_init, crypto_global_init and
\* crypto_global_cleanup return
ReturnPcs == {"ei_unlock", "gi_unlock", "gi_fast", "gc_unlock"}

\* C15: a crypto_global_init, crypto_global_cleanup or latch-setting
\* crypto_early_init that called its delegate returns the delegate's result
\* unchanged, failure codes included, and one that called none returns 0; a
\* failed delegate is not called again: sslInitializedGlobal, once set, stays
\* set, tor_ssl_global_init and crypto_global_init of the module are called
\* at most once, and every crypto_global_init that finds the latch set
\* returns 0.
C15_Step ==
  /\ sslInitializedGlobal => sslInitializedGlobal'
  /\ sslInitializedEarly => sslInitializedEarly'
  /\ \A t \in Threads :
       (pc[t] \in ReturnPcs /\ pc'[t] = "idle") =>
         /\ result'[t] = result[t]
         /\ hist.delegated[t] # << >> => result[t] = hist.delegated[t][1]
         /\ (hist.delegated[t] = << >> /\ pc[t] # "ei_unlock") => result[t] = 0
C15_Latched ==
  /\ calls.tor_ssl_global_init <= 1
  /\ calls.crypto_global_init <= 1
  /\ calls.crypto_early_init <= 1
  /\ \A t \in Threads :
       pc[t] = "gi_fast" => (result[t] = 0 /\ hist.delegated[t] = << >>)
C15_FailureVerbatimNoRetry == []C15_Latched /\ [][C15_Step]_vars

\* the delegate init failed with code -2, which its caller returned, and a
\* later crypto_global_init is returning 0 without a delegate call
C15_Witness ==
  \E t, u \in Threads :
    /\ t # u
    /\ pc[t] = "idle" /\ hist.delegated[t] = <<0 - 2>> /\ result[t] = 0 - 2
    /\ calls.crypto_early_init = 0 /\ calls.crypto_global_cleanup = 0
    /\ calls.crypto_global_init = 1
    /\ pc[u] = "gi_fast" /\ result[u] = 0

\* C16: a setup that finds nThreads > 0 increments nThreads and leaves
\* numCryptoThreadLocks and the array as they are, whatever numLocks it was
\* given; a setup that finds nThreads = 0 (none yet, or every thread torn
\* down) stores its numLocks and allocates an array of that many fresh locks.
C16_Step ==
  \A t \in Threads :
    (pc[t] = "setup_lock" /\ pc'[t] = "setup_cs") =>
      /\ nThreads' = nThreads + 1
      /\ nThreads > 0 =>
           /\ numCryptoThreadLocks' = numCryptoThreadLocks
           /\ cryptoThreadLocks' = cryptoThreadLocks
           /\ hist.allocs' = hist.allocs
      /\ nThreads = 0 =>
           /\ numCryptoThreadLocks' = arg[t]
           /\ cryptoThreadLocks' = g_new0_locks(arg[t])
           /\ initialized'
           /\ hist.allocs' = hist.allocs + 1
C16_LaterCountIgnored == [][C16_Step]_vars

\* a second thread has gone through setup with a numLocks other than the
\* stored one
C16_Witness ==
  \E t \in Threads :
    /\ pc[t] = "setup_cs"
    /\ nThreads = 2
    /\ arg[t] # numCryptoThreadLocks
    /\ hist.allocs = 1
    /\ DOMAIN cryptoThreadLocks = 0..(numCryptoThreadLocks - 1)

\* the state of the global-init coordinator and of the lock array
CoordinatorAndArray ==
  <<sslInitializedGlobal, nTorCryptoNodes, nThreads, initialized,
    numCryptoThreadLocks, cryptoThreadLocks>>

\* C17: no step of crypto_early_init changes sslInitializedGlobal,
\* nTorCryptoNodes, nThreads or the lock array; no step of
\* crypto_global_init, crypto_global_cleanup, setup or teardown changes
\* sslInitializedEarly; and a crypto_early_init takes the real early-init
\* path exactly when it finds sslInitializedEarly clear and the reseed path
\* exactly when it finds it set, whatever the other fields hold.
C17_Step ==
  \A t \in Threads :
    /\ (pc[t] \in SecondaryWaitPcs \cup SecondaryHeldPcs /\ pc'[t] # pc[t]) =>
         CoordinatorAndArray' = CoordinatorAndArray
    /\ (pc[t] = "idle" /\ pc'[t] = "ei_lock") =>
         (CoordinatorAndArray' = CoordinatorAndArray
          /\ sslInitializedEarly' = sslInitializedEarly)
    /\ ((pc[t] \in PrimaryWaitPcs \cup PrimaryHeldPcs /\ pc'[t] # pc[t])
        \/ (pc[t] = "idle" /\ pc'[t] \in PrimaryWaitPcs)) =>
         sslInitializedEarly' = sslInitializedEarly
    /\ (pc[t] = "ei_lock" /\ pc'[t] # "ei_lock") =>
         /\ (pc'[t] = "ei_early") <=> ~sslInitializedEarly
         /\ (pc'[t] = "ei_seed") <=> sslInitializedEarly
         /\ sslInitializedEarly'
LiveCalls ==
  \/ \E t \in Threads, h \in Handles :
       MutexBudget /\ shadowtorpreload_init(t, h, MaxLocks)
  \/ \E t \in Threads : MutexBudget /\ shadowtorpreload_clear(t)
  \/ \E t \in Threads : MutexBudget /\ crypto_early_init_call(t)
  \/ \E t \in Threads : MutexBudget /\ crypto_global_init_call(t)
  \/ \E t \in Threads : MutexBudget /\ crypto_global_cleanup_call(t)
NextLive == LiveCalls \/ MutexSteps

\* a thread inside a call is scheduled: it takes its next step if that step
\* stays possible, and a call into the Tor module returns
ThreadProgress(t) == EarlyInitProgress(t) \/ PrimaryProgress(t)
Scheduling == \A t \in Threads : WF_vars(ThreadProgress(t))
SpecLive == Init /\ [][NextLive]_vars /\ Scheduling

\* C18: with every thread inside a call scheduled and every call into the
\* Tor module returning, each crypto_early_init, crypto_global_init,
\* crypto_global_cleanup, setup and teardown that was called gets its
\* G_LOCK, gives it back and returns, on every path.
C18_EveryCallReturns ==
  \A t \in Threads : (pc[t] # "idle") ~> (pc[t] = "idle" /\ ~crashed)

\* the same for as long as the process is alive: a call returns unless a
\* call through a NULL vtable entry has killed the process
C18_ReturnsUnlessKilled ==
  \A t \in Threads : (pc[t] # "idle") ~> (pc[t] = "idle" \/ crashed)

\* while the process is alive, some thread inside a call can take a step
C18_NoDeadlock ==
  (~crashed /\ \E t \in Threads : pc[t] # "idle") =>
    \E t \in Threads : ENABLED ThreadProgress(t)

\* thread t is between the return of its shadowtorpreload_init and its call
\* of shadowtorpreload_clear
InWindow(t) == Bound(t) /\ pc[t] = "idle" /\ t \notin hist.cleared
\* thread t holds no entry of the lock array
HoldsNothing(t) ==
  \A i \in DOMAIN cryptoThreadLocks :
    t \notin cryptoThreadLocks[i].readers /\ cryptoThreadLocks[i].writer # t

\* each thread calls shadowtorpreload_init once, then the locking callback
\* any number of times, then, holding nothing, shadowtorpreload_clear once
NextWindow ==
  \/ \E t \in Threads, n \in {0, MaxLocks} :
       worker[t] = NULL /\ shadowtorpreload_init(t, FullHandle, n)
  \/ \E t \in Threads : shadowtorpreload_cryptoSetup(t)
  \/ \E t \in Threads : shadowtorpreload_cryptoSetup_unlock(t)
  \/ \E t \in Threads, m \in LockModes, n \in 0..(MaxLocks - 1) :
       InWindow(t) /\ shadowtorpreload_cryptoLockingFunc(t, m, n)
  \/ \E t \in Threads :
       InWindow(t) /\ HoldsNothing(t) /\ shadowtorpreload_clear(t)
  \/ \E t \in Threads : shadowtorpreload_cryptoTeardown(t)
  \/ \E t \in Threads : shadowtorpreload_cryptoTeardown_unlock(t)
SpecWindow == Init /\ [][NextWindow]_vars

\* C19: when every thread makes its locking callbacks between its own
\* shadowtorpreload_init and shadowtorpreload_clear and holds nothing at the
\* clear, a callback never finds initialized clear (the assert cannot fail)
\* nor the array fields being written by a setup or teardown, and the step
\* that frees the array finds every one of its locks free.
C19_Present ==
  /\ ~crashed
  /\ \A t \in Threads :
       InWindow(t) =>
         /\ initialized
         /\ ~ENABLED shadowtorpreload_cryptoLockingFunc_assert(t)
         /\ ~ENABLED shadowtorpreload_cryptoLockingFunc_race(t)
C19_Step ==
  (hist.frees' # hist.frees \/ (initialized /\ ~initialized')) =>
    /\ \A j \in DOMAIN cryptoThreadLocks : ~Held(j)
    /\ \A t \in Threads : ~InWindow(t)
C19_ArrayOutlivesItsUsers == []C19_Present /\ [][C19_Step]_vars

\* one thread holds a lock while another, done with its own, is inside the
\* teardown that leaves the array in place
C19_Witness ==
  \E t, u \in Threads, j \in DOMAIN cryptoThreadLocks :
    /\ t # u
    /\ InWindow(t) /\ cryptoThreadLocks[j].writer = t
    /\ pc[u] = "teardown_cs"
    /\ initialized /\ nThreads = 1

\* a thread is inside a call into the Tor module made under the primary lock
PrimaryDelegatePcs == {"gi_ssl", "gi_crypto", "gc_cleanup"}
\* a thread is inside the critical section of setup or teardown
ArrayPcs == {"setup_cs", "teardown_cs"}

\* C20: at no time are two threads inside tor_ssl_global_init,
\* crypto_global_init or crypto_global_cleanup of the Tor module, nor is one
\* inside such a call while another is inside the critical section of setup
\* or teardown; the steps that allocate and free the lock array are taken
\* with no thread inside such a call.
C20_Exclusive ==
  \A t, u \in Threads :
    (t # u /\ pc[t] \in PrimaryDelegatePcs) =>
      pc[u] \notin PrimaryDelegatePcs \cup ArrayPcs
C20_Step ==
  (hist.allocs' # hist.allocs \/ hist.frees' # hist.frees) =>
    \A t \in Threads :
      pc[t] \notin PrimaryDelegatePcs /\ pc'[t] \notin PrimaryDelegatePcs
C20_PrimaryDelegatesSerialised == []C20_Exclusive /\ [][C20_Step]_vars

\* a thread is inside crypto_global_init of the Tor module while another,
\* whose setup will allocate the array, waits for the primary lock
C20_Witness ==
  \E t, u \in Threads :
    /\ t # u
    /\ pc[t] = "gi_crypto"
    /\ pc[u] = "setup_lock"
    /\ ~initialized

====
